---- MODULE Spec2Model ----
(***************************************************************************)
(* Herd-behaviour detector: the serving process (backend/main.py, the      *)
(* multi-window heuristic evaluated per event) and the stream job          *)
(* (stream_processor/faust_app.py, the rolling-baseline z-score evaluated  *)
(* on a 5 s timer).                                                        *)
(*                                                                         *)
(* Time is counted in whole seconds.  An asyncio task runs without         *)
(* interruption between two awaits, so every action below is the code      *)
(* between two awaits of one task.                                         *)
(***************************************************************************)
EXTENDS Integers, Sequences, FiniteSets, TLC

\* ------------------------------------------------------------------ bounds
\* the clock advances, and the messages and requests handled, that one
\* behaviour of Spec may hold
MaxTicks == 1
MaxCalls == 2

\* --------------------------------------------------------- program constants
maxlen == 100
MinHistory == 20
MinBaseline == 3
MinRecent == 10
AbsoluteThreshold == 15
SpikeSize == 15
max_retries == 10

Products == {"p1", "p2"}
\* what a falsy product_id (missing, null, "") reads as
NoProduct == ""
\* the clock advances the environment may make, in seconds
Steps == {1, 30}
\* the instant at which a behaviour starts
StartTime == 300
\* the events a product may hold when a behaviour starts: how many it
\* received 300, 120 and 30 seconds before
StartBatches ==
    [a300 : {0}, a120 : {0}, a30 : {0}]
        \cup [a300 : {0, 76}, a120 : {5}, a30 : {0, 9, 14}]

Tasks == {"events", "alerts", "track", "spike"}
\* the two consumers, each with its own AIOKafkaConsumer
Sources == {"events", "alerts"}
Conns == {"c1", "c2"}

\* a message of the alerts topic: as above, the object being an alert of the
\* stream job
AlertMessages ==
    [kind : {"garbage", "scalar"}, product_id : {NoProduct}]
        \cup [kind : {"object"}, product_id : {"p1"}]

\* a message of the user_events topic: bytes that do not decode or parse
\* ("garbage"), JSON that is no object ("scalar"), or a JSON object whose
\* product_id reads as given
EventMessages ==
    [kind : {"garbage", "scalar"}, product_id : {NoProduct}]
        \cup [kind : {"object"}, product_id : Products \cup {NoProduct}]

VARIABLES
    now,                \* datetime.utcnow(), in seconds
    product_activity,   \* tracked product_id -> deque of timestamps
    appended,           \* history: every timestamp ever appended, per product
    events_consumer,    \* consume_events: "running" or "stopped"
    alerts_consumer,    \* consume_alerts: "running" or "stopped"
    active_connections, \* manager.active_connections
    sockets,            \* each WebSocket: "none", "open", "closed", "done"
    bc,                 \* per task: where its manager.broadcast call stands
    escaped,            \* per task: the exception that left manager.broadcast
    delivered,          \* history: per WebSocket and product, the alerts sent
    response,           \* what the last HTTP handler returned
    broadcasts,         \* history: per product, the calls of manager.broadcast
    used,               \* history: how much of each bound is used
    producer,           \* the event source of a scenario: its script and place
    short_counts,       \* stream job: key -> count in the current 60 s window
    short_keys,         \* stream job: the keys of short_counts, as inserted
    baseline_store,     \* stream job: key -> list of past window counts
    alerts_topic,       \* history: the alerts sent to the alerts topic
    detect,             \* stream job: where the running detect() stands
    window_ticks,       \* timer runs since the current window began
    connection          \* per consumer: consumer.start() attempts made, and,
                        \* history, the messages it took

storevars == <<product_activity, appended>>
connvars == <<active_connections, sockets, bc, escaped, delivered>>
streamvars == <<short_counts, short_keys, baseline_store, alerts_topic, detect,
                window_ticks>>
othervars == <<producer, streamvars, connection>>
backendvars == <<now, product_activity, appended, events_consumer,
                 alerts_consumer, active_connections, sockets, bc, escaped,
                 delivered, response, broadcasts, connection>>
vars == <<now, product_activity, appended, events_consumer, alerts_consumer,
          active_connections, sockets, bc, escaped, delivered, response,
          broadcasts, used, producer, short_counts, short_keys,
          baseline_store, alerts_topic, detect, window_ticks, connection>>

\* ----------------------------------------------------------- Activity Store
None == [none |-> TRUE]

\* product_activity[pid] read without inserting
Get(pa, pid) == IF pid \in DOMAIN pa THEN pa[pid] ELSE <<>>

\* a read that empties the record it reads
TouchDrains(pa, pid) ==
    [k \in DOMAIN pa \cup {pid} |-> IF k = pid THEN <<>> ELSE pa[k]]

\* defaultdict(lambda: deque(maxlen=100)): a read of a missing key inserts it
Touch(pa, pid) ==
    IF pid \in DOMAIN pa THEN pa
    ELSE [k \in DOMAIN pa \cup {pid} |-> IF k = pid THEN <<>> ELSE pa[k]]

\* a full deque that drops the entry appended instead of its oldest
DequeAppendKeepsOldest(dq, t) ==
    IF Len(dq) >= maxlen THEN dq ELSE Append(dq, t)

\* deque(maxlen=100).append: a full deque drops its oldest entry
DequeAppend(dq, t) ==
    IF Len(dq) >= maxlen THEN Append(Tail(dq), t) ELSE Append(dq, t)

\* an append that skips a timestamp equal to the last one recorded
RecordDistinct(pa, pid, t) ==
    [k \in DOMAIN pa \cup {pid} |->
        IF k # pid THEN pa[k]
        ELSE IF Get(pa, pid) # <<>> /\ Get(pa, pid)[Len(Get(pa, pid))] = t
        THEN pa[pid]
        ELSE DequeAppend(Get(pa, pid), t)]

\* product_activity[pid].append(t)
Record(pa, pid, t) ==
    [k \in DOMAIN pa \cup {pid} |->
        IF k = pid THEN DequeAppend(Get(pa, pid), t) ELSE pa[k]]

RECURSIVE RecordN(_, _, _, _)
\* for i in range(n): product_activity[pid].append(t)
RecordN(pa, pid, t, n) ==
    IF n = 0 THEN pa ELSE RecordN(Record(pa, pid, t), pid, t, n - 1)

RECURSIVE Repeat(_, _)
Repeat(t, n) == IF n = 0 THEN <<>> ELSE Append(Repeat(t, n - 1), t)

\* ----------------------------------------------------------- detect_anomaly
\* windows that do not overlap: the events older than half the window only
CountWithinBand(history, t, seconds) ==
    Cardinality({i \in 1..Len(history) :
                    /\ t - history[i] <= seconds
                    /\ 2 * (t - history[i]) > seconds})

\* len([e for e in history if (current_time - e).total_seconds() <= seconds])
CountWithin(history, t, seconds) ==
    Cardinality({i \in 1..Len(history) : t - history[i] <= seconds})

WindowCounts(history, t) ==
    [recent_30s  |-> CountWithin(history, t, 30),
     recent_1m   |-> CountWithin(history, t, 60),
     baseline_2m |-> CountWithin(history, t, 120),
     baseline_5m |-> CountWithin(history, t, 300)]

\* ratio >= 2.5, with ratio = recent_count / baseline_count
RatioTrigger(recent, baseline) == 2 * recent >= 5 * baseline
\* the 5-minute count compared without its division by 5
VelocityTriggerUnnormalised(recent_1m, baseline_5m) ==
    recent_1m >= 3 * baseline_5m

\* velocity_1m >= velocity_5m * 3, with velocity_5m = baseline_5m / 5
VelocityTrigger(recent_1m, baseline_5m) == 5 * recent_1m >= 3 * baseline_5m
\* an absolute threshold that the count has to exceed
AbsoluteTriggerAbove(recent) == recent > AbsoluteThreshold

\* recent_count >= 15
AbsoluteTrigger(recent) == recent >= AbsoluteThreshold

RECURSIVE RootSearch(_, _, _, _)
\* the largest n in lo..hi with (2n-1)^2 * den <= 4 * num, i.e. n - 1/2 <=
\* sqrt(num/den): sqrt(num/den) rounded to the nearest integer, ties upward
RootSearch(num, den, lo, hi) ==
    IF lo >= hi THEN lo
    ELSE LET mid == (lo + hi + 1) \div 2
         IN IF (2 * mid - 1) * (2 * mid - 1) <= (4 * num) \div den
            THEN RootSearch(num, den, mid, hi)
            ELSE RootSearch(num, den, lo, mid - 1)

\* the distance between the two counts, whichever is larger, not scaled
ZScoreDistance(recent, baseline) ==
    IF recent >= baseline THEN 100 * (recent - baseline)
    ELSE 100 * (baseline - recent)

\* round(z_score, 2) in hundredths, z_score = (recent - baseline) /
\* max(1, baseline) ** 0.5; round() rounds an exact tie to the even digit
ZScore100(recent, baseline) ==
    LET d   == IF recent >= baseline THEN recent - baseline
               ELSE baseline - recent
        den == IF baseline > 1 THEN baseline ELSE 1
        num == 10000 * d * d
        up  == RootSearch(num, den, 0, 100 * d)
        tie == /\ (4 * num) % den = 0
               /\ (2 * up - 1) * (2 * up - 1) = (4 * num) \div den
        mag == IF tie /\ up % 2 = 1 THEN up - 1 ELSE up
    IN IF recent >= baseline THEN mag ELSE 0 - mag

\* a minimum that lets 15 samples through
TooFewSamplesAt15(history) == Len(history) < 15

\* if len(history) < 20: return None
TooFewSamples(history) == Len(history) < MinHistory

\* detect_anomaly(product_id) evaluated at instant t: the alert, or None
DetectAnomaly(pa, pid, t) ==
    LET history == Get(pa, pid)
        counts == WindowCounts(history, t)
        recent_count == counts.recent_30s
        baseline_count == counts.baseline_2m
        ratio_trigger == RatioTrigger(recent_count, baseline_count)
        velocity_trigger ==
            VelocityTrigger(counts.recent_1m, counts.baseline_5m)
        absolute_trigger == AbsoluteTrigger(recent_count)
    IN IF TooFewSamples(history) THEN None
       ELSE IF baseline_count >= MinBaseline /\ recent_count >= MinRecent
               /\ (ratio_trigger \/ velocity_trigger \/ absolute_trigger)
       THEN [none |-> FALSE,
             product_id |-> pid,
             current_count |-> recent_count,
             z_score |-> ZScore100(recent_count, baseline_count),
             mean |-> baseline_count,
             velocity_1m |-> counts.recent_1m,
             velocity_5m |-> 2 * counts.baseline_5m,
             detected_at |-> t,
             trigger_type |-> IF ratio_trigger THEN "ratio"
                              ELSE IF velocity_trigger THEN "velocity"
                              ELSE "absolute"]
       ELSE None

\* --------------------------------------------------------- ConnectionManager
Idle == [pc |-> "idle", alert |-> None, size |-> 0, visited |-> {},
         cur |-> "", disconnected |-> <<>>]

RECURSIVE RemoveAll(_, _)
\* for connection in disconnected: self.active_connections.remove(connection)
\* the set left and whether a remove raised KeyError
RemoveAll(conns, disconnected) ==
    IF disconnected = <<>> THEN [conns |-> conns, error |-> FALSE]
    ELSE IF Head(disconnected) \notin conns
    THEN [conns |-> conns, error |-> TRUE]
    ELSE RemoveAll(conns \ {Head(disconnected)}, Tail(disconnected))

\* what follows manager.broadcast in task t; outcome is "ok" or the exception
\* that left it.  consume_events and consume_alerts catch it outside their
\* loop and stop; track_event answers "error"; simulate_spike lets it through
Completed(t, alert, outcome) ==
    /\ events_consumer' = IF t = "events" /\ outcome # "ok" THEN "stopped"
                          ELSE events_consumer
    /\ alerts_consumer' = IF t = "alerts" /\ outcome # "ok" THEN "stopped"
                          ELSE alerts_consumer
    /\ escaped' = IF outcome = "ok" THEN escaped
                  ELSE [escaped EXCEPT ![t] = outcome]
    /\ response' =
         IF t = "track"
         THEN [status |-> IF outcome = "ok" THEN "accepted" ELSE "error",
               body |-> {}]
         ELSE IF t = "spike"
         THEN [status |-> IF outcome = "ok" THEN "spike_created"
                          ELSE "server_error",
               body |-> IF outcome = "ok" THEN {alert} ELSE {}]
         ELSE response

\* await manager.broadcast(json.dumps(alert)) up to its first await: with no
\* connection the call returns at once, otherwise it waits in send_text
StartBroadcast(t, alert) ==
    /\ broadcasts' = [broadcasts EXCEPT ![alert.product_id] =
                        Append(@, [task |-> t, alert |-> alert])]
    /\ UNCHANGED <<active_connections, sockets, delivered>>
    /\ IF active_connections = {}
       THEN /\ bc' = bc
            /\ Completed(t, alert, "ok")
       ELSE /\ \E c \in active_connections :
                 bc' = [bc EXCEPT ![t] =
                          [pc |-> "send", alert |-> alert,
                           size |-> Cardinality(active_connections),
                           visited |-> {c}, cur |-> c,
                           disconnected |-> <<>>]]
            /\ UNCHANGED <<events_consumer, alerts_consumer, escaped,
                           response>>

\* the pending send_text of task t returns or raises, and broadcast runs on
\* to its next await or to its end
BroadcastStep(t) ==
    /\ bc[t].pc = "send"
    /\ LET b == bc[t]
           sent == sockets[b.cur] = "open"
           disconnected == IF sent THEN b.disconnected
                           ELSE Append(b.disconnected, b.cur)
           rest == active_connections \ b.visited
           removed == RemoveAll(active_connections, disconnected)
       IN /\ delivered' = IF sent
                          THEN [delivered EXCEPT
                                  ![b.cur][b.alert.product_id] = @ + 1]
                          ELSE delivered
          /\ UNCHANGED <<sockets, broadcasts>>
          /\ IF Cardinality(active_connections) # b.size
             THEN \* RuntimeError: Set changed size during iteration
                  /\ bc' = [bc EXCEPT ![t] = Idle]
                  /\ UNCHANGED active_connections
                  /\ Completed(t, b.alert, "RuntimeError")
             ELSE IF rest # {}
             THEN /\ \E c \in rest :
                       bc' = [bc EXCEPT ![t] =
                                [b EXCEPT !.visited = @ \cup {c}, !.cur = c,
                                          !.disconnected = disconnected]]
                  /\ UNCHANGED <<active_connections, events_consumer,
                                 alerts_consumer, escaped, response>>
             ELSE /\ bc' = [bc EXCEPT ![t] = Idle]
                  /\ active_connections' = removed.conns
                  /\ Completed(t, b.alert,
                               IF removed.error THEN "KeyError" ELSE "ok")
    /\ UNCHANGED <<now, storevars, used>>

\* ------------------------------------------------------------------- handlers
\* the environment's clock
Tick(d) ==
    /\ now' = now + d
    /\ used' = [used EXCEPT !.ticks = @ + 1]
    /\ UNCHANGED <<storevars, events_consumer, alerts_consumer, connvars,
                   response, broadcasts>>

Log(log, pid, t, n) == [log EXCEPT ![pid] = @ \o Repeat(t, n)]

\* one pass of the loop of consume_events over message msg
ConsumeEvents(msg) ==
    /\ events_consumer = "running"
    /\ bc["events"].pc = "idle"
    /\ used' = [used EXCEPT !.calls = @ + 1]
    /\ UNCHANGED now
    /\ IF msg.kind = "garbage" \/ (msg.kind = "object" /\ msg.product_id = NoProduct)
       THEN \* json.loads raised, or "if not product_id": continue
            UNCHANGED <<storevars, events_consumer, alerts_consumer,
                        connvars, response, broadcasts>>
       ELSE IF msg.kind = "scalar"
       THEN \* event.get raises AttributeError, caught outside the loop
            /\ events_consumer' = "stopped"
            /\ UNCHANGED <<storevars, alerts_consumer, connvars, response,
                           broadcasts>>
       ELSE LET pid == msg.product_id
                pa == Touch(Record(product_activity, pid, now), pid)
                alert == DetectAnomaly(pa, pid, now)
            IN /\ product_activity' = pa
               /\ appended' = Log(appended, pid, now, 1)
               /\ IF alert # None
                  THEN StartBroadcast("events", alert)
                  ELSE UNCHANGED <<events_consumer, alerts_consumer,
                                   connvars, response, broadcasts>>

\* @app.post("/track")
TrackEvent(product_id) ==
    /\ bc["track"].pc = "idle"
    /\ used' = [used EXCEPT !.calls = @ + 1]
    /\ UNCHANGED now
    /\ IF product_id = NoProduct
       THEN /\ response' = [status |-> "accepted", body |-> {}]
            /\ UNCHANGED <<storevars, events_consumer, alerts_consumer,
                           connvars, broadcasts>>
       ELSE LET pa == Touch(Record(product_activity, product_id, now),
                            product_id)
                alert == DetectAnomaly(pa, product_id, now)
            IN /\ product_activity' = pa
               /\ appended' = Log(appended, product_id, now, 1)
               /\ IF alert # None
                  THEN StartBroadcast("track", alert)
                  ELSE /\ response' = [status |-> "accepted", body |-> {}]
                       /\ UNCHANGED <<events_consumer, alerts_consumer,
                                      connvars, broadcasts>>

\* @app.post("/simulate/spike/{product_id}")
SimulateSpike(product_id) ==
    /\ bc["spike"].pc = "idle"
    /\ used' = [used EXCEPT !.calls = @ + 1]
    /\ UNCHANGED now
    /\ LET pa == Touch(RecordN(product_activity, product_id, now, SpikeSize),
                       product_id)
           alert == DetectAnomaly(pa, product_id, now)
       IN /\ product_activity' = pa
          /\ appended' = Log(appended, product_id, now, SpikeSize)
          /\ IF alert # None
             THEN StartBroadcast("spike", alert)
             ELSE /\ response' = [status |-> "no_alert_triggered",
                                  body |-> {}]
                  /\ UNCHANGED <<events_consumer, alerts_consumer, connvars,
                                 broadcasts>>

\* one pass of the loop of consume_alerts over message msg
ConsumeAlerts(msg) ==
    /\ alerts_consumer = "running"
    /\ bc["alerts"].pc = "idle"
    /\ used' = [used EXCEPT !.calls = @ + 1]
    /\ UNCHANGED <<now, storevars>>
    /\ IF msg.kind = "garbage"
       THEN UNCHANGED <<events_consumer, alerts_consumer, connvars, response,
                        broadcasts>>
       ELSE IF msg.kind = "scalar"
       THEN \* alert.get raises AttributeError, caught outside the loop
            /\ alerts_consumer' = "stopped"
            /\ UNCHANGED <<events_consumer, connvars, response, broadcasts>>
       ELSE StartBroadcast("alerts", [none |-> FALSE,
                                      product_id |-> msg.product_id,
                                      detected_at |-> now])

\* websocket_endpoint up to its receive loop: manager.connect(websocket)
WSConnect(c) ==
    /\ sockets[c] = "none"
    /\ sockets' = [sockets EXCEPT ![c] = "open"]
    /\ active_connections' = active_connections \cup {c}
    /\ UNCHANGED <<now, storevars, events_consumer, alerts_consumer, bc,
                   escaped, delivered, response, broadcasts, used>>

\* the client of WebSocket c goes away
ClientClose(c) ==
    /\ sockets[c] = "open"
    /\ sockets' = [sockets EXCEPT ![c] = "closed"]
    /\ UNCHANGED <<now, storevars, events_consumer, alerts_consumer,
                   active_connections, bc, escaped, delivered, response,
                   broadcasts, used>>

\* websocket_endpoint: receive_text raises and manager.disconnect removes the
\* WebSocket, which raises KeyError when a broadcast removed it before
WSDisconnect(c) ==
    /\ sockets[c] = "closed"
    /\ sockets' = [sockets EXCEPT ![c] = IF c \in active_connections
                                         THEN "done" ELSE "failed"]
    /\ active_connections' = active_connections \ {c}
    /\ UNCHANGED <<now, storevars, events_consumer, alerts_consumer, bc,
                   escaped, delivered, response, broadcasts, used>>

RECURSIVE TouchAll(_, _)
\* the store after detect_anomaly has read each key of keys
TouchAll(pa, keys) ==
    IF keys = {} THEN pa
    ELSE LET k == CHOOSE x \in keys : TRUE
         IN TouchAll(Touch(pa, k), keys \ {k})

MockAlerts ==
    {[product |-> "Limited Edition Sneakers", trend |-> "up", views |-> 132],
     [product |-> "Wireless Headphones", trend |-> "down", views |-> 59]}

MockTrending ==
    {[product |-> "Limited Edition Sneakers", trend |-> "up", views |-> 132,
      z_score |-> 450, mean |-> 40]}

\* the body of get_alerts(): one entry per key whose evaluation alerts (in
\* the order of the keys, which the set leaves out), or the mock entries
AlertsBody(pa, t) ==
    LET alerts == {[product |-> p, trend |-> "up",
                    views |-> DetectAnomaly(pa, p, t).current_count] :
                   p \in {q \in DOMAIN pa : DetectAnomaly(pa, q, t) # None}}
    IN IF alerts = {} THEN MockAlerts ELSE alerts

\* the body of get_trending_alerts(): alert.get("z_score", 0) > 3
TrendingBody(pa, t) ==
    LET trending ==
          {[product |-> p, trend |-> "up",
            views |-> DetectAnomaly(pa, p, t).current_count,
            z_score |-> DetectAnomaly(pa, p, t).z_score,
            mean |-> DetectAnomaly(pa, p, t).mean] :
           p \in {q \in DOMAIN pa : /\ DetectAnomaly(pa, q, t) # None
                                    /\ DetectAnomaly(pa, q, t).z_score > 300}}
    IN IF trending = {} THEN MockTrending ELSE trending

\* @app.get("/alerts") and, through it, @app.get("/alerts/active")
GetAlerts ==
    /\ product_activity' = TouchAll(product_activity, DOMAIN product_activity)
    /\ response' = [status |-> "alerts",
                    body |-> AlertsBody(product_activity, now)]
    /\ UNCHANGED <<now, appended, events_consumer, alerts_consumer, connvars,
                   broadcasts, used, producer>>

\* @app.get("/alerts/trending")
GetTrendingAlerts ==
    /\ product_activity' = TouchAll(product_activity, DOMAIN product_activity)
    /\ response' = [status |-> "trending_alerts",
                    body |-> TrendingBody(product_activity, now)]
    /\ UNCHANGED <<now, appended, events_consumer, alerts_consumer, connvars,
                   broadcasts, used, producer>>

\* ------------------------------------------------------------- specification
\* the record of a product that received the events of batch b
StartRecord(b) ==
    Repeat(StartTime - 300, b.a300) \o Repeat(StartTime - 120, b.a120)
        \o Repeat(StartTime - 30, b.a30)

\* the process at instant StartTime: nothing tracked yet, or product p1
\* tracked with the events of one of the batches, none evicted
InitStore ==
    \E b \in StartBatches :
        /\ product_activity =
             IF StartRecord(b) = <<>> THEN <<>>
             ELSE [p \in {"p1"} |-> StartRecord(b)]
        /\ appended = [p \in Products |->
                         IF p = "p1" THEN StartRecord(b) ELSE <<>>]

InitRest ==
    /\ events_consumer = "running"
    /\ alerts_consumer = "running"
    /\ active_connections = {}
    /\ sockets = [c \in Conns |-> "none"]
    /\ bc = [t \in Tasks |-> Idle]
    /\ escaped = [t \in Tasks |-> "none"]
    /\ delivered = [c \in Conns |-> [p \in Products \cup {NoProduct} |-> 0]]
    /\ response = [status |-> "", body |-> {}]
    /\ broadcasts = [p \in Products \cup {NoProduct} |-> <<>>]
    /\ used = [ticks |-> 0, calls |-> 0]
    /\ connection = [t \in Sources |-> [attempts |-> 1, consumed |-> 0]]

\* an event source that follows no script
Unscripted == [pattern |-> "none", finale |-> "none", delay |-> 0, gap |-> 0,
               sent |-> 0, waited |-> FALSE, phase |-> "none", burst_at |-> 0]

\* the stream job after construction: both tables empty, detect() not running
InitStream ==
    /\ short_counts = <<>>
    /\ short_keys = <<>>
    /\ baseline_store = <<>>
    /\ alerts_topic = <<>>
    /\ detect = [pc |-> "idle"]
    /\ window_ticks = 0

Init ==
    /\ now = StartTime
    /\ InitStore
    /\ InitRest
    /\ InitStream
    /\ producer = Unscripted

\* the serving process with no WebSocket client: every broadcast returns at
\* once, so each handler is one step
Next ==
    \/ \E d \in Steps : used.ticks < MaxTicks /\ Tick(d) /\ UNCHANGED othervars
    \/ \E msg \in EventMessages :
          used.calls < MaxCalls /\ ConsumeEvents(msg) /\ UNCHANGED othervars
    \/ \E p \in Products \cup {NoProduct} :
          used.calls < MaxCalls /\ TrackEvent(p) /\ UNCHANGED othervars
    \/ \E p \in Products :
          used.calls < MaxCalls /\ SimulateSpike(p) /\ UNCHANGED othervars
    \/ GetAlerts /\ UNCHANGED othervars
    \/ GetTrendingAlerts /\ UNCHANGED othervars

Spec == Init /\ [][Next]_vars

\* --------------------------------------------------------- WebSocket clients
\* the messages and requests handled that one behaviour of SpecWS may hold
MaxCallsWS == 2

\* product p1 one event short of alerting: 5 events 120 s old, 14 events 30 s
\* old
HotRecord == StartRecord([a300 |-> 0, a120 |-> 5, a30 |-> 14])

InitWS ==
    /\ now = StartTime
    /\ product_activity = [p \in {"p1"} |-> HotRecord]
    /\ appended = [p \in Products |-> IF p = "p1" THEN HotRecord ELSE <<>>]
    /\ InitRest
    /\ InitStream
    /\ producer = Unscripted

\* the serving process with WebSocket clients: a broadcast waits in each
\* send_text, and the other tasks run meanwhile
NextWS ==
    \/ \E c \in Conns : WSConnect(c) /\ UNCHANGED othervars
    \/ \E c \in Conns : ClientClose(c) /\ UNCHANGED othervars
    \/ \E c \in Conns : WSDisconnect(c) /\ UNCHANGED othervars
    \/ \E t \in Tasks : BroadcastStep(t) /\ UNCHANGED othervars
    \/ \E msg \in EventMessages :
          used.calls < MaxCallsWS /\ ConsumeEvents(msg) /\ UNCHANGED othervars
    \/ \E msg \in AlertMessages :
          used.calls < MaxCallsWS /\ ConsumeAlerts(msg) /\ UNCHANGED othervars
    \/ \E p \in Products \cup {NoProduct} :
          used.calls < MaxCallsWS /\ TrackEvent(p) /\ UNCHANGED othervars
    \/ \E p \in Products :
          used.calls < MaxCallsWS /\ SimulateSpike(p) /\ UNCHANGED othervars

SpecWS == InitWS /\ [][NextWS]_vars

\* ------------------------------------------------------------------ scenarios
\* A scripted event source for one product: 20 baseline events, then a
\* finale.  Baseline patterns: "even" sends one event every 30 s and "pairs"
\* two events together every 60 s (both 2 events per minute for 10 minutes);
\* "seconds" sends one event every second.  Finales: "burst" waits delay
\* seconds, sends 20 events gap seconds apart (within 30 s) and stays quiet
\* for 5 s; "spike" calls /simulate/spike at the instant of the last event.
ScenarioProduct == "p1"
Scenario == [baseline |-> 20, burst |-> 20, quiet |-> 5]

Scripts ==
    {[pattern |-> pt, finale |-> "burst", delay |-> d, gap |-> g, sent |-> 0,
      waited |-> FALSE, phase |-> "baseline", burst_at |-> 0] :
        pt \in {"even", "pairs", "seconds"}, d \in {1, 30}, g \in {0, 1}}
    \cup
    {[pattern |-> pt, finale |-> "spike", delay |-> 0, gap |-> 0, sent |-> 0,
      waited |-> FALSE, phase |-> "baseline", burst_at |-> 0] :
        pt \in {"even", "pairs", "seconds"}}

\* the seconds the source lets pass before its next event
WaitBefore(pr) ==
    IF pr.sent = 0 THEN 0
    ELSE IF pr.sent < Scenario.baseline
    THEN IF pr.pattern = "even" THEN 30
         ELSE IF pr.pattern = "pairs"
         THEN (IF pr.sent % 2 = 0 THEN 60 ELSE 0)
         ELSE 1
    ELSE IF pr.sent = Scenario.baseline THEN pr.delay
    ELSE pr.gap

Sending(pr) ==
    \/ pr.phase = "baseline"
    \/ pr.phase = "burst" /\ pr.sent < Scenario.baseline + Scenario.burst

ScenarioWait ==
    /\ Sending(producer)
    /\ ~producer.waited
    /\ WaitBefore(producer) > 0
    /\ Tick(WaitBefore(producer))
    /\ producer' = [producer EXCEPT !.waited = TRUE]
    /\ UNCHANGED <<streamvars, connection>>

ScenarioEvent ==
    /\ Sending(producer)
    /\ producer.waited \/ WaitBefore(producer) = 0
    /\ ConsumeEvents([kind |-> "object", product_id |-> ScenarioProduct])
    /\ producer' =
         [producer EXCEPT
            !.sent = @ + 1,
            !.waited = FALSE,
            !.burst_at = IF producer.sent = Scenario.baseline THEN now ELSE @,
            !.phase = IF producer.sent + 1 = Scenario.baseline
                      THEN producer.finale ELSE @]
    /\ UNCHANGED <<streamvars, connection>>

ScenarioSpike ==
    /\ producer.phase = "spike"
    /\ SimulateSpike(ScenarioProduct)
    /\ producer' = [producer EXCEPT !.phase = "done"]
    /\ UNCHANGED <<streamvars, connection>>

ScenarioQuiet ==
    /\ producer.phase = "burst"
    /\ producer.sent = Scenario.baseline + Scenario.burst
    /\ Tick(Scenario.quiet)
    /\ producer' = [producer EXCEPT !.phase = "done"]
    /\ UNCHANGED <<streamvars, connection>>

InitScenario ==
    /\ now = StartTime
    /\ product_activity = <<>>
    /\ appended = [p \in Products |-> <<>>]
    /\ InitRest
    /\ InitStream
    /\ producer \in Scripts

NextScenario ==
    ScenarioWait \/ ScenarioEvent \/ ScenarioSpike \/ ScenarioQuiet

SpecScenario == InitScenario /\ [][NextScenario]_vars

\* --------------------------------------------------------------------- startup
\* the messages that one behaviour of SpecStartup may hold
MaxCallsStartup == 2

\* a retry loop that sleeps and tries again after every failure
AfterAttemptRetriesOn(attempts, ok) ==
    IF ok THEN "running" ELSE "connecting"

\* the retry loop after attempt number attempts: break on success, sleep and
\* go round on failure, return on the failure of the last attempt
AfterAttempt(attempts, ok) ==
    IF ok THEN "running"
    ELSE IF attempts < max_retries THEN "connecting"
    ELSE "failed"

\* consume_events or consume_alerts awaits consumer.start() once more
Start(t, ok) ==
    /\ (IF t = "events" THEN events_consumer ELSE alerts_consumer)
          = "connecting"
    /\ connection' = [connection EXCEPT ![t].attempts = @ + 1]
    /\ events_consumer' =
         IF t = "events" THEN AfterAttempt(connection[t].attempts + 1, ok)
         ELSE events_consumer
    /\ alerts_consumer' =
         IF t = "alerts" THEN AfterAttempt(connection[t].attempts + 1, ok)
         ELSE alerts_consumer
    /\ UNCHANGED <<now, storevars, connvars, response, broadcasts, used,
                   producer, streamvars>>

\* the message taken is counted for its consumer
Consumed(t) ==
    /\ connection' = [connection EXCEPT ![t].consumed = @ + 1]
    /\ UNCHANGED <<producer, streamvars>>

\* the serving process as startup_event leaves it: both tasks created,
\* neither consumer started
InitStartup ==
    /\ now = StartTime
    /\ product_activity = <<>>
    /\ appended = [p \in Products |-> <<>>]
    /\ events_consumer = "connecting"
    /\ alerts_consumer = "connecting"
    /\ active_connections = {}
    /\ sockets = [c \in Conns |-> "none"]
    /\ bc = [t \in Tasks |-> Idle]
    /\ escaped = [t \in Tasks |-> "none"]
    /\ delivered = [c \in Conns |-> [p \in Products \cup {NoProduct} |-> 0]]
    /\ response = [status |-> "", body |-> {}]
    /\ broadcasts = [p \in Products \cup {NoProduct} |-> <<>>]
    /\ used = [ticks |-> 0, calls |-> 0]
    /\ connection = [t \in Sources |-> [attempts |-> 0, consumed |-> 0]]
    /\ InitStream
    /\ producer = Unscripted

NextStartup ==
    \/ \E t \in Sources, ok \in BOOLEAN : Start(t, ok)
    \/ \E msg \in EventMessages :
          used.calls < MaxCallsStartup /\ ConsumeEvents(msg)
              /\ Consumed("events")
    \/ \E msg \in AlertMessages :
          used.calls < MaxCallsStartup /\ ConsumeAlerts(msg)
              /\ Consumed("alerts")

SpecStartup == InitStartup /\ [][NextStartup]_vars

\* ------------------------------------------------------------------ stream job
\* stream_processor/faust_app.py.  The two tables are read and written as
\* dictionaries; short_counts holds, per key, the count of the tumbling window
\* that is current, which is what += 1, .now() and = 0 address.  A window
\* lasts SHORT_WINDOW seconds and the timer runs every TimerInterval seconds.
SHORT_WINDOW == 60
TimerInterval == 5
min_count == 5
min_history == 5
BaselineCap == 60
z_threshold == 3

TicksPerWindow == SHORT_WINDOW \div TimerInterval

\* short_counts[pid] of the current window: default=int
Count(sc, pid) == IF pid \in DOMAIN sc THEN sc[pid] ELSE 0

\* short_counts[pid] = v
SetCount(sc, pid, v) ==
    [k \in DOMAIN sc \cup {pid} |-> IF k = pid THEN v ELSE sc[k]]

\* the keys of the table after one is written: a new key comes last
KeysWith(keys, pid) ==
    IF \E i \in 1..Len(keys) : keys[i] = pid THEN keys ELSE Append(keys, pid)

\* baseline_store[pid]: default=list
Baseline(bs, pid) == IF pid \in DOMAIN bs THEN bs[pid] ELSE <<>>

\* bl.append(curr); if len(bl) > 60: bl.pop(0)
BaselineAppend(bl, curr) ==
    IF Len(bl) + 1 > BaselineCap THEN Tail(Append(bl, curr))
    ELSE Append(bl, curr)

\* hist = bl[:-1] if len(bl) > 1 else []
History(bl) == IF Len(bl) > 1 THEN SubSeq(bl, 1, Len(bl) - 1) ELSE <<>>

RECURSIVE Sum(_)
Sum(seq) == IF seq = <<>> THEN 0 ELSE Head(seq) + Sum(Tail(seq))

RECURSIVE SumSq(_)
SumSq(seq) ==
    IF seq = <<>> THEN 0 ELSE Head(seq) * Head(seq) + SumSq(Tail(seq))

\* n * n times the population variance of hist: pstdev(hist) is its square
\* root over n, and 0.0 is taken when len(hist) <= 1
Spread(hist) ==
    IF Len(hist) > 1 THEN Len(hist) * SumSq(hist) - Sum(hist) * Sum(hist)
    ELSE 0

\* s < 1
LowSpread(hist) == Spread(hist) < Len(hist) * Len(hist)

\* curr >= m * 3, with m = mean(hist)
ThreeTimesMean(hist, curr) == Len(hist) * curr >= 3 * Sum(hist)

\* z > z_threshold, with z = (curr - m) / (s + epsilon): with a = n * (curr -
\* m) and v = n * n * s * s this is a > 3 * sqrt(v) + 3 * n * epsilon.  a and
\* v are integers, so a > 3 * sqrt(v) gives a * a - 9 * v >= 1 and a - 3 *
\* sqrt(v) > 1 / (2 * a), which exceeds 3 * n * epsilon while 6 * n * a <
\* 10^6: epsilon decides nothing for n <= 60 and counts below 46.
ZAboveThreshold(hist, curr) ==
    LET a == Len(hist) * curr - Sum(hist)
    IN  a > 0 /\ a * a > z_threshold * z_threshold * Spread(hist)

\* a gate on the history size that lets one sample pass
TooLittleHistoryUnder2(hist) == Len(hist) < 2

\* if len(hist) < 5: continue
TooLittleHistory(hist) == Len(hist) < min_history

\* if curr >= min_count
CountGate(curr) == curr >= min_count

\* the alert detect() builds for pid after appending curr to its baseline bl,
\* or None; mean and deviation are carried as the size, sum and spread of
\* the history they are computed from
StreamAlert(pid, curr, bl, t) ==
    LET hist == History(bl)
    IN  IF TooLittleHistory(hist) THEN None
        ELSE IF CountGate(curr)
                  /\ \/ LowSpread(hist) /\ ThreeTimesMean(hist, curr)
                     \/ ZAboveThreshold(hist, curr)
        THEN [none |-> FALSE, product_id |-> pid, current_count |-> curr,
              history_size |-> Len(hist), history_sum |-> Sum(hist),
              history_spread |-> Spread(hist), detected_at |-> t]
        ELSE None

RECURSIVE RunDetect(_, _, _, _)
\* the loop of detect() over keys, up to its end or to the first
\* alerts_topic.send it waits in: each key visited has the count read
\* appended to its baseline
RunDetect(keys, sc, bs, t) ==
    IF keys = <<>>
    THEN [baseline_store |-> bs, alert |-> None, keys |-> <<>>]
    ELSE LET pid == Head(keys)
             curr == Count(sc, pid)
             bl == BaselineAppend(Baseline(bs, pid), curr)
             stored == [k \in DOMAIN bs \cup {pid} |->
                          IF k = pid THEN bl ELSE bs[k]]
             alert == StreamAlert(pid, curr, bl, t)
         IN  IF alert.none THEN RunDetect(Tail(keys), sc, stored, t)
             ELSE [baseline_store |-> stored, alert |-> alert,
                   keys |-> Tail(keys)]

\* detect() between two awaits, over the keys left
DetectFrom(keys, sc, t) ==
    LET run == RunDetect(keys, sc, baseline_store, t)
    IN  /\ baseline_store' = run.baseline_store
        /\ detect' = IF run.alert.none THEN [pc |-> "idle"]
                     ELSE [pc |-> "send", alert |-> run.alert,
                           keys |-> run.keys, tick |-> t]

\* the process agent takes one message of user_events: whatever json.loads
\* or ev.get raises is caught inside the loop and logged
Process(msg) ==
    /\ used' = [used EXCEPT !.calls = @ + 1]
    /\ IF msg.kind = "object" /\ msg.product_id # NoProduct
       THEN /\ short_counts' =
                 SetCount(short_counts, msg.product_id,
                          Count(short_counts, msg.product_id) + 1)
            /\ short_keys' = KeysWith(short_keys, msg.product_id)
       ELSE UNCHANGED <<short_counts, short_keys>>
    /\ UNCHANGED <<baseline_store, alerts_topic, detect, window_ticks>>
    /\ UNCHANGED backendvars

\* the timer starts detect(): keys = list(short_counts.keys()), then the loop
Detect ==
    /\ detect.pc = "idle"
    /\ window_ticks < TicksPerWindow
    /\ used' = [used EXCEPT !.ticks = @ + 1]
    /\ window_ticks' = window_ticks + 1
    /\ DetectFrom(short_keys, short_counts, used.ticks + 1)
    /\ UNCHANGED <<short_counts, short_keys, alerts_topic>>
    /\ UNCHANGED backendvars

\* a reset that leaves the count as it is
KeepCount(sc, pid) == sc

\* short_counts[pid] = 0
ResetCount(sc, pid) == SetCount(sc, pid, 0)

\* alerts_topic.send returns: the counter of the key is reset and the loop
\* goes on
DetectSent ==
    /\ detect.pc = "send"
    /\ alerts_topic' = Append(alerts_topic, detect.alert)
    /\ short_counts' = ResetCount(short_counts, detect.alert.product_id)
    /\ DetectFrom(detect.keys, short_counts', detect.tick)
    /\ UNCHANGED <<short_keys, window_ticks, used>>
    /\ UNCHANGED backendvars

\* SHORT_WINDOW seconds have passed: the table opens the next window, in
\* which every key counts from its default again
WindowRoll ==
    /\ window_ticks = TicksPerWindow
    /\ window_ticks' = 0
    /\ short_counts' = [k \in DOMAIN short_counts |-> 0]
    /\ UNCHANGED <<short_keys, baseline_store, alerts_topic, detect, used>>
    /\ UNCHANGED backendvars

\* the messages, and the timer runs, that one behaviour of SpecStream may hold
MaxMessages == 4
MaxTimerRuns == 3

\* key p1 having received one event and seen n timer runs in this window
WarmStream(n) ==
    /\ short_counts = [k \in {"p1"} |-> 1]
    /\ short_keys = <<"p1">>
    /\ baseline_store = [k \in {"p1"} |-> Repeat(1, n)]
    /\ alerts_topic = <<>>
    /\ detect = [pc |-> "idle"]
    /\ window_ticks = n

\* the stream job after construction, or a while later
InitStreamJob ==
    /\ now = StartTime
    /\ product_activity = <<>>
    /\ appended = [p \in Products |-> <<>>]
    /\ InitRest
    /\ InitStream \/ WarmStream(4) \/ WarmStream(TicksPerWindow - 2)
    /\ producer = Unscripted

NextStream ==
    \/ \E msg \in EventMessages :
          used.calls < MaxMessages /\ Process(msg) /\ UNCHANGED producer
    \/ used.ticks < MaxTimerRuns /\ Detect /\ UNCHANGED producer
    \/ DetectSent /\ UNCHANGED producer
    \/ WindowRoll /\ UNCHANGED producer

SpecStream == InitStreamJob /\ [][NextStream]_vars

\* ------------------------------------------------------------ steady, then 30
\* a key that counts 5 on each of 10 timer runs and 30 on the next, followed
\* by one more run with no event in between
Steady == [count |-> 5, runs |-> 10, spike |-> 30]

\* the scripts: key p2 may have received events before p1 is first seen
SteadyScripts ==
    [pattern : {"steady"}, other : {0, 6}, sent : {0}, runs : {0},
     noise : {0}, phase : {"other"}]

\* the events of the other key, if any, come first
SteadyOther ==
    /\ producer.phase = "other"
    /\ IF producer.sent < producer.other
       THEN /\ Process([kind |-> "object", product_id |-> "p2"])
            /\ producer' = [producer EXCEPT !.sent = @ + 1]
       ELSE /\ producer' = [producer EXCEPT !.phase = "count"]
            /\ UNCHANGED <<used, streamvars, backendvars>>

\* an event of the key: up to the steady count before the first run, and up
\* to the spike after the last steady run
SteadyEvent ==
    /\ producer.phase \in {"count", "spike"}
    /\ Process([kind |-> "object", product_id |-> ScenarioProduct])
    /\ LET target == IF producer.phase = "count" THEN Steady.count
                     ELSE Steady.spike
           reached == Count(short_counts, ScenarioProduct) + 1 = target
       IN  producer' =
             [producer EXCEPT
                !.phase = IF ~reached THEN @
                          ELSE IF @ = "count" THEN "steady" ELSE "fire"]

\* a message that is not an event may come once, at any time
SteadyNoise ==
    /\ producer.noise = 0
    /\ producer.phase # "done"
    /\ \E msg \in EventMessages :
          /\ msg.kind # "object" \/ msg.product_id = NoProduct
          /\ Process(msg)
    /\ producer' = [producer EXCEPT !.noise = 1]

\* a timer run: the steady ones, the one that reads the spike, and the one
\* that follows it
SteadyTick ==
    /\ producer.phase \in {"steady", "fire", "follow"}
    /\ Detect
    /\ producer' =
         [producer EXCEPT
            !.runs = @ + 1,
            !.phase = IF @ = "fire" THEN "follow"
                      ELSE IF @ = "follow" THEN "done"
                      ELSE IF producer.runs + 1 = Steady.runs THEN "spike"
                      ELSE @]

InitSteady ==
    /\ now = StartTime
    /\ product_activity = <<>>
    /\ appended = [p \in Products |-> <<>>]
    /\ InitRest
    /\ InitStream
    /\ producer \in SteadyScripts

NextSteady ==
    \/ SteadyOther
    \/ SteadyEvent
    \/ SteadyNoise
    \/ SteadyTick
    \/ DetectSent /\ UNCHANGED producer

SpecSteady == InitSteady /\ [][NextSteady]_vars

\* ------------------------------------------------------------ a full baseline
\* key p1 an hour on: 20 events came just before the last timer run of one
\* window, and one event at the start of each window since; the baseline holds
\* 60 samples and the current window has seen 11 runs
FullBaseline ==
    /\ short_counts = [k \in {"p1"} |-> 1]
    /\ short_keys = <<"p1">>
    /\ baseline_store = [k \in {"p1"} |-> <<20>> \o Repeat(1, BaselineCap - 1)]
    /\ alerts_topic = <<>>
    /\ detect = [pc |-> "idle"]
    /\ window_ticks = TicksPerWindow - 1

InitFull ==
    /\ now = StartTime
    /\ product_activity = <<>>
    /\ appended = [p \in Products |-> <<>>]
    /\ InitRest
    /\ FullBaseline
    /\ producer = Unscripted

SpecFull == InitFull /\ [][NextStream]_vars

\* ---------------------------------------------------------------- properties
LastN(seq, n) ==
    IF Len(seq) <= n THEN seq ELSE SubSeq(seq, Len(seq) - n + 1, Len(seq))

\* C4: whenever a product's record holds fewer than 20 timestamps, or fewer
\* than 10 of them lie in the last 30 seconds, or fewer than 3 in the last
\* 2 minutes, detect_anomaly returns no alert for it, and no handler has
\* broadcast an alert for it at this instant.
C4_NoAlertOnSparseData ==
    \A k \in Products :
        LET h == Get(product_activity, k)
        IN (\/ Len(h) < 20
            \/ CountWithin(h, now, 30) < 10
            \/ CountWithin(h, now, 120) < 3)
           => /\ DetectAnomaly(product_activity, k, now) = None
              /\ \A i \in 1..Len(broadcasts[k]) :
                    broadcasts[k][i].task # "alerts"
                       => broadcasts[k][i].alert.detected_at # now

\* C4 witness: a spike on a product with fewer than 20 timestamps put at
\* least 15 of them in the last 30 seconds and the handler reported no alert.
C4_Witness ==
    \E k \in Products :
        /\ Len(Get(product_activity, k)) \in 15..19
        /\ CountWithin(Get(product_activity, k), now, 30) >= 15
        /\ response.status = "no_alert_triggered"

\* C6: every record holds at most 100 timestamps, and it is exactly the (at
\* most) 100 timestamps appended last for its key, oldest first.
C6_EvictionKeepsMostRecent ==
    \A k \in Products :
        /\ Len(Get(product_activity, k)) <= 100
        /\ Get(product_activity, k) = LastN(appended[k], 100)

\* C6 witness: a key has received more than 100 timestamps and its record
\* holds 100, the first older than the last.
C6_Witness ==
    \E k \in Products :
        /\ Len(appended[k]) > 100
        /\ Len(product_activity[k]) = 100
        /\ product_activity[k][1] < product_activity[k][100]

\* C7: while a key has received at most 100 record operations, whichever of
\* consume_events, /track and /simulate/spike issued them and whatever
\* broadcasts were waiting meanwhile, its record holds exactly as many
\* timestamps as operations were issued.
C7_NoLostUpdates ==
    \A k \in Products :
        Len(appended[k]) <= 100
           => Len(Get(product_activity, k)) = Len(appended[k])

\* C7 witness: two handlers have recorded for the same key, each is waiting
\* in its broadcast, and the key holds both records.
C7_Witness ==
    \E k \in Products :
        /\ Len(appended[k]) >= Len(HotRecord) + 2
        /\ bc["events"].pc = "send"
        /\ bc["track"].pc = "send" \/ bc["spike"].pc = "send"
        /\ Len(product_activity[k]) = Len(appended[k])

\* C10 (as claimed): no exception leaves manager.broadcast in any task,
\* whatever the clients do, so a broadcast never stops consume_events.
C10_BroadcastNeverRaises ==
    /\ \A t \in Tasks : escaped[t] = "none"
    /\ escaped["events"] # "none" => events_consumer = "running"

\* C8: a query (/alerts, /alerts/active, /alerts/trending) leaves every
\* record as it was, and evaluating again in the state it leaves, at the same
\* instant, gives the decision it returned.
C8_EvaluationReadOnly ==
    [][/\ GetAlerts => /\ product_activity' = product_activity
                       /\ AlertsBody(product_activity', now') = response'.body
       /\ GetTrendingAlerts =>
             /\ product_activity' = product_activity
             /\ TrendingBody(product_activity', now') = response'.body]_vars

\* C8 witness: /alerts answered with a real alert for a tracked product.
C8_Witness ==
    /\ response.status = "alerts"
    /\ \E a \in response.body : a.product \in DOMAIN product_activity

Malformed(msg) ==
    msg.kind \in {"garbage", "scalar"} \/ msg.product_id = NoProduct

\* C9 (as claimed): consuming a message that is not parseable JSON, or that
\* parses to a value without a non-empty product_id, leaves the records
\* unchanged, broadcasts nothing and leaves consume_events running.
C9_MalformedNeverFatal ==
    [][\A msg \in EventMessages :
          (Malformed(msg) /\ ConsumeEvents(msg))
             => /\ product_activity' = product_activity
                /\ broadcasts' = broadcasts
                /\ events_consumer' = "running"]_vars

\* the alerts consume_events broadcast for the scenario's product since the
\* burst began
BurstAlerts ==
    SelectSeq(broadcasts[ScenarioProduct],
              LAMBDA b : b.task = "events"
                         /\ b.alert.detected_at >= producer.burst_at)

InBurst ==
    /\ producer.pattern \in {"even", "pairs"}
    /\ producer.finale = "burst"
    /\ producer.sent > Scenario.baseline

\* C1 (as claimed): for a product that received 2 events per minute for 10
\* minutes and then 20 events within 30 seconds, consume_events broadcasts
\* at most one alert during the burst, and once the burst and the 5 seconds
\* after it are over it has broadcast exactly one, of trigger type ratio,
\* velocity or absolute.
C1_ExactlyOneAlertPerBurst ==
    InBurst =>
       /\ Len(BurstAlerts) <= 1
       /\ producer.phase = "done" =>
             /\ Len(BurstAlerts) = 1
             /\ BurstAlerts[1].alert.trigger_type
                   \in {"ratio", "velocity", "absolute"}

\* the record of the absolute-floor scenario: 20 timestamps 1 s apart ending
\* at now, then 15 more at now
FloorRecord ==
    [i \in 1..35 |-> IF i <= 20 THEN now - (20 - i) ELSE now]

AtFloorScenario ==
    /\ producer.pattern = "seconds"
    /\ producer.finale = "spike"
    /\ producer.phase = "done"

\* C2 (as claimed): on that record detect_anomaly returns, and simulate_spike
\* answers with, an alert of trigger type "absolute".
C2_FloorScenarioAbsolute ==
    AtFloorScenario =>
       /\ DetectAnomaly(product_activity, ScenarioProduct, now).none = FALSE
       /\ DetectAnomaly(product_activity, ScenarioProduct, now).trigger_type
             = "absolute"

\* C2 (amended): on that record detect_anomaly returns, and simulate_spike
\* answers with, an alert whose current_count is 35 (so the absolute floor of
\* 15 is met) and whose trigger type is "velocity", the first condition in
\* the order ratio, velocity, absolute that holds (35 >= 3 * 35 / 5).
C2_FloorScenarioVelocity ==
    AtFloorScenario =>
       LET alert == DetectAnomaly(product_activity, ScenarioProduct, now)
       IN /\ product_activity[ScenarioProduct] = FloorRecord
          /\ alert.none = FALSE
          /\ alert.current_count = 35
          /\ alert.trigger_type = "velocity"
          /\ response = [status |-> "spike_created", body |-> {alert}]

\* C2 witness: the scenario has run and the record is the one of the claim.
C2_Witness ==
    /\ AtFloorScenario
    /\ product_activity[ScenarioProduct] = FloorRecord
    /\ response.status = "spike_created"

\* C3: in the steady-then-30 scenario the run that reads 30 sends one alert
\* for the key, with current_count 30, and once it is sent the key's counter
\* is 0; the run that follows reads 0, not 30, and sends no second alert
C3_OneShotSuppression ==
    LET p == ScenarioProduct
        spike == /\ detect.alert.product_id = p
                 /\ detect.alert.current_count = 30
        sent == /\ Len(alerts_topic) = 1
                /\ alerts_topic[1].product_id = p
                /\ alerts_topic[1].current_count = 30
    IN  /\ producer.phase = "follow" =>
              \/ detect.pc = "send" /\ spike /\ alerts_topic = <<>>
              \/ detect.pc = "idle" /\ sent /\ short_counts[p] = 0
        /\ producer.phase = "done" =>
              /\ detect.pc = "idle"
              /\ sent
              /\ Len(baseline_store[p]) = 12
              /\ baseline_store[p][11] = 30
              /\ baseline_store[p][12] = 0

C3_Witness ==
    /\ producer.phase = "done"
    /\ SubSeq(baseline_store[ScenarioProduct], 1, 10) = Repeat(5, 10)
    /\ baseline_store[ScenarioProduct][11] = 30
    /\ Len(alerts_topic) = 1

\* C5: detect() builds an alert for a key only if the count it read is at
\* least 5 and the key's history without the sample just appended has at
\* least 5 entries; the topic grows only by such an alert, and a counter
\* goes down only when the key's alert is sent or the window ends
C5_GatedAlerts ==
    [][/\ (detect'.pc = "send" /\ detect' # detect) =>
             LET k == detect'.alert.product_id
             IN  /\ Count(short_counts', k) >= 5
                 /\ detect'.alert.current_count = Count(short_counts', k)
                 /\ Len(baseline_store'[k]) - 1 >= 5
       /\ alerts_topic' # alerts_topic =>
             /\ detect.pc = "send"
             /\ alerts_topic' = Append(alerts_topic, detect.alert)
       /\ \A k \in DOMAIN short_counts :
             short_counts'[k] < short_counts[k] =>
                \/ window_ticks = TicksPerWindow /\ window_ticks' = 0
                \/ /\ detect.pc = "send"
                   /\ detect.alert.product_id = k
                   /\ alerts_topic' = Append(alerts_topic, detect.alert)
      ]_vars

C5_Witness ==
    /\ alerts_topic # <<>>
    /\ alerts_topic[1].current_count = 5
    /\ alerts_topic[1].history_size = 5
    /\ short_counts[alerts_topic[1].product_id] = 0

\* C11: while consume_events waits for an alert to be delivered to a
\* WebSocket client, it can still take the next event of the stream
C11_IngestionNotStalled ==
    (events_consumer = "running" /\ bc["events"].pc = "send") =>
        ENABLED ConsumeEvents([kind |-> "object",
                               product_id |-> ScenarioProduct])

ConsumerStatus(t) ==
    IF t = "events" THEN events_consumer ELSE alerts_consumer

RetryBounded ==
    \A t \in Sources :
        /\ connection[t].attempts <= 10
        /\ ConsumerStatus(t) = "failed" =>
              connection[t].attempts = 10 /\ connection[t].consumed = 0
        /\ ConsumerStatus(t) = "connecting" =>
              connection[t].attempts < 10 /\ connection[t].consumed = 0
        /\ ConsumerStatus(t) \in {"running", "stopped"} =>
              connection[t].attempts \in 1..10

\* C12: each consumer makes at most 10 attempts to start; after 10 failures
\* it has ended without taking a message; once an attempt succeeds it makes
\* no further attempt; and an attempt of one consumer leaves the other
\* consumer as it is
C12_BoundedRetry ==
    [][/\ RetryBounded /\ RetryBounded'
       /\ \A t \in Sources :
             /\ ConsumerStatus(t) # "connecting" =>
                   connection'[t].attempts = connection[t].attempts
             /\ ConsumerStatus(t) = "failed" => ConsumerStatus(t)' = "failed"
             /\ connection'[t].attempts # connection[t].attempts =>
                   \A o \in Sources \ {t} :
                       /\ ConsumerStatus(o)' = ConsumerStatus(o)
                       /\ connection'[o] = connection[o]
      ]_vars

\* the events consumer gave up after 10 attempts while the alerts consumer,
\* connected at a later attempt than its first, takes messages
C12_Witness ==
    /\ events_consumer = "failed"
    /\ connection["events"].attempts = 10
    /\ alerts_consumer = "running"
    /\ connection["alerts"].attempts > 1
    /\ connection["alerts"].consumed > 0

\* the tasks that called manager.broadcast for product p with an alert
\* detected at instant t
Broadcasters(p, t) ==
    {broadcasts[p][i].task : i \in
        {j \in 1..Len(broadcasts[p]) : broadcasts[p][j].alert.detected_at = t}}

\* C13: when consume_events (local detector) and consume_alerts (alert of
\* the stream job) both broadcast for one product at the same instant, no
\* client is sent more than one alert for that product
C13_CrossStrategyDedup ==
    \A p \in Products :
        {"events", "alerts"} \subseteq Broadcasters(p, now) =>
            \A c \in Conns : delivered[c][p] <= 1

\* C14: for every tracked key whose counts pass the gating (record size >=
\* 20, recent_30s >= 10, baseline_2m >= 3), detect_anomaly returns an alert
\* exactly when ratio >= 2.5, or recent_1m >= 3 * (baseline_5m / 5), or
\* recent_30s >= 15, and the trigger_type of the alert is the first of
\* ratio, velocity, absolute whose condition holds
C14_TriggerDecision ==
    \A k \in DOMAIN product_activity :
        LET h == product_activity[k]
            r30 == CountWithin(h, now, 30)
            r60 == CountWithin(h, now, 60)
            b2 == CountWithin(h, now, 120)
            b5 == CountWithin(h, now, 300)
            ratio == 2 * r30 >= 5 * b2
            velocity == 5 * r60 >= 3 * b5
            absolute == r30 >= 15
            alert == DetectAnomaly(product_activity, k, now)
        IN  (Len(h) >= 20 /\ r30 >= 10 /\ b2 >= 3) =>
                /\ alert # None <=> (ratio \/ velocity \/ absolute)
                /\ alert # None =>
                      alert.trigger_type =
                          IF ratio THEN "ratio"
                          ELSE IF velocity THEN "velocity"
                          ELSE "absolute"

\* an alert was broadcast for a key on the absolute threshold alone: 15
\* events in the last 30 seconds, too few in the last minute for velocity
C14_Witness ==
    \E k \in DOMAIN product_activity :
        LET alert == DetectAnomaly(product_activity, k, now)
        IN  /\ alert # None
            /\ alert.trigger_type = "absolute"
            /\ alert.current_count = 15
            /\ 5 * alert.velocity_1m < 3 * CountWithin(product_activity[k], now, 300)
            /\ broadcasts[k] # <<>>

\* C15: a timer run appends to a key's baseline exactly the count it read,
\* the baseline never holds more than 60 samples, and the statistics of an
\* alert are those of all the samples the baseline held before the append,
\* also when the append overflows the cap
C15_BaselineUpdate ==
    [][/\ \A k \in DOMAIN baseline_store' :
             /\ Len(baseline_store'[k]) <= 60
             /\ \/ baseline_store'[k] = Baseline(baseline_store, k)
                \/ baseline_store'[k] =
                      LastN(Append(Baseline(baseline_store, k),
                                   Count(short_counts', k)), 60)
       /\ (detect'.pc = "send" /\ detect' # detect) =>
             LET k == detect'.alert.product_id
                 before == Baseline(baseline_store, k)
             IN  /\ detect'.alert.history_size = Len(before)
                 /\ detect'.alert.history_sum = Sum(before)
      ]_vars

\* C16: what /alerts (and /alerts/active) returns names exactly the tracked
\* keys for which detect_anomaly returns an alert at that instant; when no
\* tracked key alerts it names no product
C16_QueryReturnsTrackedAlerts ==
    [][(response'.status = "alerts" /\ response' # response) =>
           {entry.product : entry \in response'.body} =
               {k \in DOMAIN product_activity :
                   DetectAnomaly(product_activity, k, now) # None}
      ]_vars

\* C17: at every evaluation the four window counts are nested, recent_30s <=
\* recent_1m <= baseline_2m <= baseline_5m <= record size <= 100; so every
\* alert detect_anomaly returns, and every alert a handler broadcast from it,
\* has current_count <= mean and a trigger_type other than "ratio"
C17_NestedCountsNoRatio ==
    /\ \A k \in DOMAIN product_activity :
          LET h == product_activity[k]
              counts == WindowCounts(h, now)
              alert == DetectAnomaly(product_activity, k, now)
          IN  /\ counts.recent_30s <= counts.recent_1m
              /\ counts.recent_1m <= counts.baseline_2m
              /\ counts.baseline_2m <= counts.baseline_5m
              /\ counts.baseline_5m <= Len(h)
              /\ Len(h) <= 100
              /\ alert # None =>
                    /\ alert.current_count <= alert.mean
                    /\ alert.trigger_type # "ratio"
    /\ \A k \in Products : \A i \in 1..Len(broadcasts[k]) :
          broadcasts[k][i].task # "alerts" =>
              /\ broadcasts[k][i].alert.current_count
                    <= broadcasts[k][i].alert.mean
              /\ broadcasts[k][i].alert.trigger_type # "ratio"

\* an alert was broadcast whose 30-second count, 15 or more, is below its
\* 2-minute count
C17_Witness ==
    \E k \in Products : \E i \in 1..Len(broadcasts[k]) :
        /\ broadcasts[k][i].task # "alerts"
        /\ broadcasts[k][i].alert.current_count >= 15
        /\ broadcasts[k][i].alert.current_count < broadcasts[k][i].alert.mean
        /\ broadcasts[k][i].alert.trigger_type \in {"velocity", "absolute"}

\* C18: every alert detect_anomaly returns has a z_score that is not
\* positive, so /alerts/trending, which keeps z_score > 3, never names a
\* tracked product: what it returns is always the one fixed entry
C18_TrendingAlwaysPlaceholder ==
    /\ \A k \in DOMAIN product_activity :
          LET alert == DetectAnomaly(product_activity, k, now)
          IN  alert # None => alert.z_score <= 0
    /\ TrendingBody(product_activity, now) = MockTrending
    /\ response.status = "trending_alerts" =>
          /\ response.body = MockTrending
          /\ \A entry \in response.body :
                entry.product \notin DOMAIN product_activity

\* /alerts/trending answered while a tracked product alerts
C18_Witness ==
    /\ response.status = "trending_alerts"
    /\ \E k \in DOMAIN product_activity :
          LET alert == DetectAnomaly(product_activity, k, now)
          IN  alert # None /\ alert.z_score < 0 /\ alert.current_count >= 15

====
